---- MODULE Spec2Model ----
(***************************************************************************)
(* Companion-Link for SillyTavern as a state machine.                      *)
(*                                                                         *)
(* Server plugin (SillyTavern-CompanionLink/server/index.js): the          *)
(* in-memory context store (latest event, history ring, ambient system     *)
(* note, one-shot trigger flag) and its HTTP routes.  Every route handler  *)
(* is one atomic action (Node runs a synchronous handler to completion);   *)
(* the wall clock advances between requests.  A run lasts from             *)
(* init(router) to exit().                                                 *)
(*                                                                         *)
(* UI extension (SillyTavern-CompanionLink/index.js): the poll of          *)
(* GET /context, the cached event and ambient note, the visible injection  *)
(* through the send box, the generate interceptor and the test and clear   *)
(* buttons.  A poll is one action (FetchLatestContext: the request, the    *)
(* route and the handling of the response) or, where polls overlap, two:   *)
(* PollSend up to the await, PollDeliver or PollFail after it.             *)
(*                                                                         *)
(* POST /telemetry and the server's telemetry field are left out; the      *)
(* extension's telemetry is fed by the response bodies of SpecText.         *)
(***************************************************************************)
EXTENDS Integers, Sequences, FiniteSets, Bags, TLC

\* ---------------------------------------------------------------- bounds
\* Capacity of the history ring.  The plugin sets 50 (server/index.js:18);
\* the model runs the same code with a small ring so that it fills up.
MAX_HISTORY == 3
\* Accepted POST /inject calls in one run.
MaxInjects == 4
\* Groups of POST /trigger calls (separated by retrievals) in one run.
MaxTriggerSets == 2
\* POST /trigger calls in one group.
MaxSetCalls == 2

\* ------------------------------------------------------ program constants
DEFAULT_MAX_AGE == 300
DEFAULT_LIMIT == 10
MS_PER_SEC == 1000

\* JavaScript null / undefined.
NULL == [null |-> TRUE]

\* A string where the program may also hold null.
Str(s) == [str |-> s]

\* ------------------------------------------------------------ JS helpers
\* Date.prototype.toISOString: the instant split into its printed parts
\* (whole seconds and the three millisecond digits).
ToISOString(t) == [sec |-> t \div MS_PER_SEC, ms |-> t % MS_PER_SEC]

\* new Date(iso).getTime(): the printed parts read back as milliseconds.
DateParse(iso) == iso.sec * MS_PER_SEC + iso.ms

\* Math.round(ms / 1000): nearest integer, halves towards +infinity.
RoundSec(ms) == (2 * ms + MS_PER_SEC) \div (2 * MS_PER_SEC)

\* A query-string parameter: absent, a non-numeric text, or decimal digits
\* with an optional sign.
QAbsent == [kind |-> "absent", val |-> 0]
QText == [kind |-> "text", val |-> 0]
QInt(n) == [kind |-> "int", val |-> n]

\* parseInt(q): NaN for an absent or non-numeric parameter.
ParseInt(q) == IF q.kind = "int" THEN [nan |-> FALSE, val |-> q.val]
               ELSE [nan |-> TRUE, val |-> 0]

\* p || d on a number: NaN and 0 are falsy.
OrDefault(p, d) == IF p.nan \/ p.val = 0 THEN d ELSE p.val

Min(a, b) == IF a < b THEN a ELSE b

\* Array.prototype.slice(0, end) on an array of length Len(s): a negative
\* end counts from the end of the array.
Slice0(s, end) ==
  LET e == IF end < 0 THEN (IF Len(s) + end < 0 THEN 0 ELSE Len(s) + end)
           ELSE Min(end, Len(s))
  IN SubSeq(s, 1, e)

\* ---------------------------------------------------------------- inputs
\* Request bodies of POST /inject; action "" stands for a missing action.
InjectBodies ==
  { [action |-> "like", formatted_text |-> "A liked note", note |-> [title |-> "T"]],
    [action |-> "read", formatted_text |-> "", note |-> [title |-> ""]],
    [action |-> "", formatted_text |-> "A liked note", note |-> [title |-> "T"]] }

\* The bodies ingested while the ring and the trigger flag are exercised:
\* one accepted body and one without an action.
StoreBodies == {b \in InjectBodies : b.formatted_text # ""}
TriggerBodies == {b \in InjectBodies : b.action = "like"}

\* Values of the random suffix of an id, Math.random().toString(36).slice(2, 8):
\* two of the suffixes the generator can return.
RandSuffixes == {0, 1}

\* Request bodies of POST /inject_system_note; "" stands for a missing text.
NoteTexts == {"", "mood"}

\* max_age of GET /context and limit of GET /history.
MaxAgeQueries == {QAbsent, QText, QInt(0), QInt(-1), QInt(1)}
LimitQueries == {QAbsent, QInt(0), QInt(-1), QInt(1), QInt(2), QInt(DEFAULT_LIMIT)}

VARIABLES
  contextHistory,   \* server/index.js:20
  latestContext,    \* server/index.js:21
  latestSystemNote, \* server/index.js:22
  pendingTrigger,   \* server/index.js:24
  now,              \* Date.now(), milliseconds
  lastResp,         \* the response to the most recent request
  \* UI extension (SillyTavern-CompanionLink/index.js)
  uiLatestContext,    \* index.js:41, latestContext of the extension
  lastContextId,      \* index.js:42
  uiLatestSystemNote, \* index.js:43, latestSystemNote of the extension
  isPluginAvailable,  \* index.js:46
  settings,           \* extension_settings.companion_link
  chat,               \* the array the host hands to the interceptor
  inflight,           \* bodies of GET /context requests still awaited
  \* history variables (not program state)
  nIngested,        \* accepted POST /inject calls so far
  sinceClear,       \* accepted POST /inject calls since the last POST /clear
  armed,            \* a POST /trigger since the last available retrieval
  trigOpen,         \* a POST /trigger since the last retrieval of any kind
  setCalls,         \* POST /trigger calls in the most recent group
  nTrigSets,        \* retrieval-separated groups of POST /trigger calls
  nDelivered,       \* GET /context responses with should_trigger = true
  trigFor,          \* id of the latest event at the pending POST /trigger
  sent,             \* texts the visible path submitted through #send_but
  lastGen,          \* kind of the most recent interceptor call
  genOn,            \* settings.enabled at the most recent interceptor call
  visCalls,         \* ids fetchLatestContext called the visible path for
  toast,            \* id the most recent handled poll notified, or null
  pollOutcome,      \* how the most recent resumed poll ended
  uiLatestTelemetry \* index.js:44, latestTelemetry of the extension

storeVars == <<contextHistory, latestContext, latestSystemNote, pendingTrigger>>
ghostVars == <<nIngested, sinceClear, armed, trigOpen, setCalls, nTrigSets,
               nDelivered, trigFor>>
clientVars == <<uiLatestContext, lastContextId, uiLatestSystemNote,
                isPluginAvailable, settings, chat, inflight, sent, lastGen,
                genOn, visCalls, toast,
                pollOutcome, uiLatestTelemetry>>
vars == <<contextHistory, latestContext, latestSystemNote, pendingTrigger,
          now, lastResp, nIngested, sinceClear, armed, trigOpen, setCalls,
          nTrigSets, nDelivered, trigFor, uiLatestContext, lastContextId,
          uiLatestSystemNote, isPluginAvailable, settings, chat, inflight,
          sent, lastGen, genOn, visCalls, toast,
          pollOutcome, uiLatestTelemetry>>

\* index.js:26-35 (the fields the modelled code reads)
DEFAULT_SETTINGS ==
  [enabled |-> TRUE, inject_position |-> "end",
   max_context_age |-> 300, show_notification |-> TRUE,
   context_max_length |-> 1200]

\* The server store after init(router).
ServerInit ==
  /\ contextHistory = <<>>
  /\ latestContext = NULL
  /\ latestSystemNote = NULL
  /\ pendingTrigger = FALSE
  /\ now = 0
  /\ lastResp = [op |-> "none"]
  /\ nIngested = 0
  /\ sinceClear = 0
  /\ armed = FALSE
  /\ trigOpen = FALSE
  /\ setCalls = 0
  /\ nTrigSets = 0
  /\ nDelivered = 0
  /\ trigFor = NULL

\* The extension's module state when its script has been evaluated
\* (index.js:41-46), with nothing in localStorage.
ClientInit ==
  /\ uiLatestContext = NULL
  /\ lastContextId = NULL
  /\ uiLatestSystemNote = NULL
  /\ isPluginAvailable = FALSE
  /\ chat = <<>>
  /\ inflight = EmptyBag
  /\ sent = <<>>
  /\ lastGen = "none"
  /\ genOn = FALSE
  /\ visCalls = <<>>
  /\ toast = NULL
  /\ pollOutcome = "none"
  /\ uiLatestTelemetry = NULL

\* State after the module is loaded and init(router) has registered routes.
Init ==
  /\ ServerInit
  /\ ClientInit
  /\ settings = DEFAULT_SETTINGS

\* ------------------------------------------------------------------ clock
\* The instants at which requests arrive: on and one millisecond after the
\* start, one second, and the default max age.
RequestTimes ==
  {sec * MS_PER_SEC + ms : sec \in {0, 1, DEFAULT_MAX_AGE}, ms \in {0, 1}}

\* The same without the instants around one second.
CoarseTimes == {t \in RequestTimes : t \div MS_PER_SEC # 1}

\* The instants within the first second.
IngestTimes == {t \in RequestTimes : t < MS_PER_SEC}

\* Time passes between two requests.
Tick(t) ==
  /\ t > now
  /\ now' = t
  /\ UNCHANGED <<storeVars, lastResp, ghostVars, clientVars>>

\* ------------------------------------------------------------ POST /inject
\* Mutant: the action check is dropped.
MissingAction_never(action) == FALSE

\* if (!action)
MissingAction(action) == action = ""

\* The entry built from the request body; r is the random suffix of the id.
\* seq is a history field: the ordinal of the ingestion.
NewEntry(body, r) ==
  [ id |-> <<now, r>>,
    action |-> body.action,
    formatted_text |-> body.formatted_text,
    note |-> body.note,
    received_at |-> ToISOString(now),
    buffer_entries |-> IF "buffer_entries" \in DOMAIN body
                       THEN body.buffer_entries ELSE <<>>,
    seq |-> nIngested + 1 ]

\* Mutant: push instead of unshift.
Unshift_push(h, e) == Append(h, e)

\* contextHistory.unshift(entry)
Unshift(h, e) == <<e>> \o h

\* Mutant: the ring is never cut back.
Truncate_none(h) == h

\* if (contextHistory.length > MAX_HISTORY) contextHistory.length = MAX_HISTORY
Truncate(h) == IF Len(h) > MAX_HISTORY THEN SubSeq(h, 1, MAX_HISTORY) ELSE h

\* note?.title || '?'
TitleOf(note) == IF note.title = "" THEN "?" ELSE note.title

Inject(body, r) ==
  IF MissingAction(body.action)
  THEN /\ lastResp' = [op |-> "inject", status |-> 400, success |-> FALSE,
                       error |-> "Missing: action"]
       /\ UNCHANGED <<storeVars, now, ghostVars, clientVars>>
  ELSE /\ nIngested < MaxInjects
       /\ LET entry == NewEntry(body, r) IN
            /\ latestContext' = entry
            /\ contextHistory' = Truncate(Unshift(contextHistory, entry))
            /\ lastResp' = [op |-> "inject", status |-> 200, success |-> TRUE,
                            message |-> <<"OK", body.action, TitleOf(body.note)>>,
                            id |-> entry.id]
       /\ nIngested' = nIngested + 1
       /\ sinceClear' = sinceClear + 1
       /\ UNCHANGED <<latestSystemNote, pendingTrigger, now, armed, trigOpen,
                      setCalls, nTrigSets, nDelivered, trigFor, clientVars>>

\* ------------------------------------------------ POST /inject_system_note
\* The note's updated_at is written here and read by no route; only the
\* text is kept.
InjectSystemNote(text) ==
  IF text = ""
  THEN /\ lastResp' = [op |-> "inject_system_note", status |-> 400,
                       success |-> FALSE, error |-> "Missing: text"]
       /\ UNCHANGED <<storeVars, now, ghostVars, clientVars>>
  ELSE /\ latestSystemNote' = [text |-> text]
       /\ lastResp' = [op |-> "inject_system_note", status |-> 200,
                       success |-> TRUE, message |-> "System Note updated"]
       /\ UNCHANGED <<contextHistory, latestContext, pendingTrigger, now,
                      ghostVars, clientVars>>

\* ------------------------------------------------------------- GET /context
\* Mutant: the boundary age counts as expired.
Expired_inclusive(ageMs, maxAge) == ageMs >= maxAge * MS_PER_SEC

\* if (ageSec > maxAge), with ageSec = ageMs / 1000
Expired(ageMs, maxAge) == ageMs > maxAge * MS_PER_SEC

\* Mutant: every available response asks for a trigger.
ShouldTrigger_always(pending) == TRUE

\* const shouldTrigger = pendingTrigger
ShouldTrigger(pending) == pending

\* Mutant: the expired response hands out the pending flag.
ExpiredShouldTrigger_pending(pending) == pending

\* should_trigger of the response that reports the event expired
ExpiredShouldTrigger(pending) == FALSE

\* should_trigger of the response made when no event is stored
AbsentShouldTrigger(pending) == FALSE

\* Mutant: the flag is read but not reset.
ResetTrigger_keep(pending) == pending

\* if (pendingTrigger) pendingTrigger = false
ResetTrigger(pending) == IF pending THEN FALSE ELSE pending

\* Mutant: the early returns reset the flag too.
KeepTrigger_reset(pending) == FALSE

\* The flag after a retrieval that returned early (expired or no event).
KeepTrigger(pending) == pending

\* The route handler; the caller's state is framed by the actions below.
ContextRoute(q) ==
  LET maxAge == OrDefault(ParseInt(q), DEFAULT_MAX_AGE) IN
  /\ IF latestContext = NULL
     THEN /\ lastResp' = [op |-> "context", max_age |-> maxAge,
                          available |-> FALSE, context |-> NULL,
                          should_trigger |-> AbsentShouldTrigger(pendingTrigger)]
          /\ pendingTrigger' = KeepTrigger(pendingTrigger)
          /\ UNCHANGED <<armed, nDelivered, trigFor>>
     ELSE LET ageMs == now - DateParse(latestContext.received_at) IN
          IF Expired(ageMs, maxAge)
          THEN /\ lastResp' = [op |-> "context", max_age |-> maxAge,
                               available |-> FALSE, context |-> NULL,
                               should_trigger |-> ExpiredShouldTrigger(pendingTrigger),
                               reason |-> <<"expired", RoundSec(ageMs), maxAge>>]
               /\ pendingTrigger' = KeepTrigger(pendingTrigger)
               /\ UNCHANGED <<armed, nDelivered, trigFor>>
          ELSE /\ lastResp' = [op |-> "context", max_age |-> maxAge,
                               available |-> TRUE, context |-> latestContext,
                               age_seconds |-> RoundSec(ageMs),
                               should_trigger |-> ShouldTrigger(pendingTrigger),
                               system_note |-> IF latestSystemNote # NULL
                                               THEN Str(latestSystemNote.text)
                                               ELSE NULL]
               /\ pendingTrigger' = ResetTrigger(pendingTrigger)
               /\ armed' = FALSE
               /\ trigFor' = NULL
               /\ nDelivered' = IF ShouldTrigger(pendingTrigger)
                                THEN nDelivered + 1 ELSE nDelivered
  /\ trigOpen' = FALSE
  /\ UNCHANGED <<contextHistory, latestContext, latestSystemNote, now,
                 nIngested, sinceClear, setCalls, nTrigSets>>

\* GET /context from a caller other than the modelled extension.
Context(q) == ContextRoute(q) /\ UNCHANGED clientVars

\* ------------------------------------------------------------- GET /history
\* Math.min(parseInt(req.query.limit) || 10, MAX_HISTORY)
HistoryLimit(q) == Min(OrDefault(ParseInt(q), DEFAULT_LIMIT), MAX_HISTORY)

History(q) ==
  /\ lastResp' = [op |-> "history",
                  count |-> Len(contextHistory),
                  items |-> Slice0(contextHistory, HistoryLimit(q))]
  /\ UNCHANGED <<storeVars, now, ghostVars, clientVars>>

\* -------------------------------------------------------------- POST /clear
\* Mutant: clear always reports that it cleared something.
HadData_always(latest) == TRUE

\* const hadData = latestContext !== null
HadData(latest) == latest # NULL

\* Mutant: clear empties the ring whatever the request says.
ClearHistory_always(h, clearHistory) == <<>>

\* if (req.body?.clear_history) contextHistory = []
ClearHistory(h, clearHistory) == IF clearHistory THEN <<>> ELSE h

\* The route handler; the caller's state is framed by the actions below.
ClearRoute(clearHistory) ==
  /\ latestContext' = NULL
  /\ contextHistory' = ClearHistory(contextHistory, clearHistory)
  /\ lastResp' = [op |-> "clear", clear_history |-> clearHistory,
                  success |-> TRUE, cleared |-> HadData(latestContext)]
  /\ sinceClear' = 0
  /\ UNCHANGED <<latestSystemNote, pendingTrigger, now, nIngested, armed,
                 trigOpen, setCalls, nTrigSets, nDelivered, trigFor>>

\* POST /clear from a caller other than the modelled extension.
Clear(clearHistory) == ClearRoute(clearHistory) /\ UNCHANGED clientVars

\* -------------------------------------------------------------- GET /status
\* The route handler; the caller's state is framed by the actions below.
StatusRoute ==
  /\ lastResp' = [op |-> "status",
                  has_context |-> latestContext # NULL,
                  history_count |-> Len(contextHistory),
                  latest_action |-> IF latestContext # NULL
                                    THEN latestContext.action ELSE NULL,
                  latest_age_sec |-> IF latestContext # NULL
                                     THEN RoundSec(now - DateParse(latestContext.received_at))
                                     ELSE -1]
  /\ UNCHANGED <<storeVars, now, ghostVars>>

\* GET /status from a caller other than the modelled extension.
Status == StatusRoute /\ UNCHANGED clientVars

\* ------------------------------------------------------------ POST /trigger
\* Mutant: the trigger route drops the latest event.
Trigger_dropsLatest ==
  /\ IF trigOpen THEN setCalls < MaxSetCalls ELSE nTrigSets < MaxTriggerSets
  /\ pendingTrigger' = TRUE
  /\ latestContext' = NULL
  /\ lastResp' = [op |-> "trigger", success |-> TRUE,
                  has_context |-> latestContext # NULL]
  /\ armed' = TRUE
  /\ trigOpen' = TRUE
  /\ setCalls' = IF trigOpen THEN setCalls + 1 ELSE 1
  /\ nTrigSets' = IF trigOpen THEN nTrigSets ELSE nTrigSets + 1
  /\ trigFor' = IF latestContext # NULL THEN latestContext.id ELSE NULL
  /\ UNCHANGED <<contextHistory, latestSystemNote, now,
                 nIngested, sinceClear, nDelivered, clientVars>>

Trigger ==
  /\ IF trigOpen THEN setCalls < MaxSetCalls ELSE nTrigSets < MaxTriggerSets
  /\ pendingTrigger' = TRUE
  /\ lastResp' = [op |-> "trigger", success |-> TRUE,
                  has_context |-> latestContext # NULL]
  /\ armed' = TRUE
  /\ trigOpen' = TRUE
  /\ setCalls' = IF trigOpen THEN setCalls + 1 ELSE 1
  /\ nTrigSets' = IF trigOpen THEN nTrigSets ELSE nTrigSets + 1
  /\ trigFor' = IF latestContext # NULL THEN latestContext.id ELSE NULL
  /\ UNCHANGED <<contextHistory, latestContext, latestSystemNote, now,
                 nIngested, sinceClear, nDelivered, clientVars>>

\* ================================================================ UI extension
\* SillyTavern-CompanionLink/index.js.  The extension polls GET /context,
\* caches the event, submits a triggered event through the send box (the
\* visible path) and adds messages to the array the host hands to its
\* generate interceptor.  The status badge is left out; of
\* the notifications, the one a poll shows for a new event is recorded.

\* Largest message array the interceptor is run on.
MaxChat == 4
\* Events pushed to the server while the extension is running.
MaxLinkEvents == 2
\* GET /context requests of the extension awaited at the same time.
MaxInflight == 2

\* An event with a note but without a narrative text.
NoteOnlyBody == [action |-> "read", formatted_text |-> "", note |-> [title |-> "T"]]

\* Events the backend pushes while the extension is running.
LinkBodies == TriggerBodies \cup {NoteOnlyBody}

\* Instants of the extension's runs: the start and one millisecond past the
\* default max age.
LinkTimes == {t \in CoarseTimes : t = 0 \/ t > DEFAULT_MAX_AGE * MS_PER_SEC}

\* Generation kinds the host passes to the interceptor.
GenerationTypes == {"normal", "quiet"}

\* The page the extension runs in: #send_textarea and #send_but present or
\* not, and what the user has typed into the box.  HostDom is the page of a
\* running SillyTavern with an empty box, DraftDom the same with a draft in
\* the box, BareDom a page without the send button.
HostDom == [send_textarea |-> TRUE, send_but |-> TRUE, draft |-> ""]
DraftDom == [send_textarea |-> TRUE, send_but |-> TRUE, draft |-> "hi"]
BareDom == [send_textarea |-> TRUE, send_but |-> FALSE, draft |-> ""]
Doms == {HostDom, DraftDom, BareDom}

\* A message of the host's own.  send_date is left out of every message: no
\* modelled code reads it.
HostMsg(text) ==
  [is_user |-> TRUE, is_system |-> FALSE, mes |-> text,
   extra |-> [type |-> NULL, companion_link_system_note |-> FALSE,
              companion_link |-> FALSE, cl_action |-> NULL,
              cl_context_id |-> NULL]]

\* Arrays the host starts a generation with.
BaseChats == {<<>>, <<HostMsg("sys")>>, <<HostMsg("sys"), HostMsg("hello")>>}

\* Settings saved by earlier sessions (index.js:820-858 write them).
SavedSettings ==
  [enabled : BOOLEAN, inject_position : {"start", "end", "before_last"},
   max_context_age : {300}, show_notification : {TRUE},
   context_max_length : {1200, 10}]

\* data.field of a parsed response body; undefined reads as null.
Field(data, f) == IF f \in DOMAIN data THEN data[f] ELSE NULL

\* JavaScript truthiness of a string-or-null value.
Truthy(v) == v # NULL /\ v.str # ""

\* n || d on a number
NumOr(n, d) == IF n = 0 THEN d ELSE n

\* ----------------------------------------------------- buildInjectionText
\* The narration literals are abbreviated and written in ASCII; their places
\* in the text are kept.  "(draft:" stands for the draft marker of the
\* trailing instruction.  The hour and the quoted comment of two scene
\* clauses are left out of their literals.

\* Buffer entries at which the extension speaks of binge watching.
BINGE_ENTRIES == 4
\* Minutes of play above which a finished session counts as long.
LONG_SESSION_MINUTES == 30

\* r.f || d for a string property
StrOr(r, f, d) == IF f \in DOMAIN r /\ r[f] # "" THEN r[f] ELSE d

\* r.f || [] for an array property
ListOr(r, f) == IF f \in DOMAIN r THEN r[f] ELSE <<>>

\* String.prototype.includes
Includes(t, w) ==
  \E i \in 1..(Len(t) - Len(w) + 1) : SubSeq(t, i, i + Len(w) - 1) = w

\* Array.prototype.includes / Set.prototype.has on an ordered collection
Has(xs, x) == \E i \in 1..Len(xs) : xs[i] = x

\* String.prototype.split on the separator characters seps, from position i
\* on, word being the piece read so far.  A run of separators gives empty
\* pieces where the regular expression of index.js:597 gives none; the
\* filter that follows drops them.
RECURSIVE SplitFrom(_, _, _, _)
SplitFrom(t, i, word, seps) ==
  IF i > Len(t) THEN <<word>>
  ELSE LET ch == SubSeq(t, i, i) IN
       IF ch \in seps THEN <<word>> \o SplitFrom(t, i + 1, "", seps)
       ELSE SplitFrom(t, i + 1, word \o ch, seps)

\* The ASCII separators of /[\s,.-]+/
Separators == {" ", ",", ".", "-"}

\* w => w.length > 1
LongWord(w) == Len(w) > 1

\* titleKeywords
TitleKeywords(note) ==
  SelectSeq(SplitFrom(StrOr(note, "title", ""), 1, "", Separators), LongWord)

\* Set.prototype.add of every element of xs, insertion order kept
RECURSIVE AddAll(_, _)
AddAll(set, xs) ==
  IF xs = <<>> THEN set
  ELSE AddAll(IF Has(set, Head(xs)) THEN set ELSE Append(set, Head(xs)),
              Tail(xs))

\* currentTags: the note's tags, then the title keywords
CurrentTags(note) ==
  AddAll(AddAll(<<>>, ListOr(note, "tags")), TitleKeywords(note))

\* const platform = note.platform || 'xiaohongshu'
Platform(note) == StrOr(note, "platform", "xiaohongshu")

\* const currentDomain
CurrentDomain(platform) ==
  IF platform = "bilibili" THEN "bilibili" ELSE "xiaohongshu"

\* entryPlatform, read off the entry's url
EntryPlatform(entry) ==
  LET entryUrl == StrOr(entry, "url", "") IN
  IF Includes(entryUrl, "bilibili.com") THEN "bilibili"
  ELSE IF Includes(entryUrl, "xiaohongshu.com") THEN "xiaohongshu"
  ELSE "unknown"

\* The filter of bufferEntries: an entry of the other platform with a tag
\* among currentTags or a title that includes a title keyword.
IsHit(entry, note) ==
  LET entryPlatform == EntryPlatform(entry)
      entryTags == ListOr(entry, "tags")
      titleKeywords == TitleKeywords(note)
  IN /\ entryPlatform # "unknown"
     /\ entryPlatform # CurrentDomain(Platform(note))
     /\ \/ \E i \in 1..Len(entryTags) : Has(CurrentTags(note), entryTags[i])
        \/ \E i \in 1..Len(titleKeywords) :
             Includes(StrOr(entry, "title", ""), titleKeywords[i])

\* const hits
Hits(ctx) ==
  SelectSeq(ListOr(ctx, "buffer_entries"), LAMBDA e : IsHit(e, ctx.note))

\* const isLateNight = hour >= 1 && hour <= 5
IsLateNight(hour) == hour >= 1 /\ hour <= 5

\* const isBingeWatching = bufferEntries.length >= 4
IsBingeWatching(ctx) == Len(ListOr(ctx, "buffer_entries")) >= BINGE_ENTRIES

\* vibeIntro (index.js:566-589)
VibeIntro(ctx, hour) ==
  IF Platform(ctx.note) = "bilibili"
  THEN IF IsLateNight(hour) THEN "(late night on bilibili)"
       ELSE IF IsBingeWatching(ctx) THEN "(deep in bilibili)"
       ELSE "(on bilibili, playing: " \o StrOr(ctx.note, "title", "video")
            \o ")"
  ELSE IF IsLateNight(hour) THEN "(late night)"
       ELSE IF IsBingeWatching(ctx) THEN "(scrolling fast)"
       ELSE CASE ctx.action = "like" -> "(shows a liked note)"
              [] ctx.action = "comment" -> "(points at a comment)"
              [] ctx.action = "share" -> "(shares a note)"
              [] OTHER -> "(shows the screen)"

\* [...currentTags].slice(0, 1).join('') || 'this topic'
CommonTopic(note) ==
  LET tags == CurrentTags(note) IN
  IF tags # <<>> /\ Head(tags) # "" THEN Head(tags) ELSE "this topic"

\* internalMonologue
InternalMonologue(ctx) ==
  IF Len(Hits(ctx)) > 0
  THEN "(char senses his interest in '" \o CommonTopic(ctx.note) \o "')"
  ELSE ""

\* parseInt of a string: the digits after its leading blanks, or NaN.  A
\* sign is not modelled.
IsDigit(ch) == \E d \in 0..9 : SubSeq("0123456789", d + 1, d + 1) = ch

DigitVal(ch) == CHOOSE d \in 0..9 : SubSeq("0123456789", d + 1, d + 1) = ch

RECURSIVE ParseDigits(_, _, _)
ParseDigits(t, i, acc) ==
  IF i > Len(t) \/ ~IsDigit(SubSeq(t, i, i)) THEN acc
  ELSE ParseDigits(t, i + 1, acc * 10 + DigitVal(SubSeq(t, i, i)))

RECURSIVE SkipBlanks(_, _)
SkipBlanks(t, i) ==
  IF i <= Len(t) /\ SubSeq(t, i, i) = " " THEN SkipBlanks(t, i + 1) ELSE i

ParseIntStr(t) ==
  LET i == SkipBlanks(t, 1) IN
  IF i > Len(t) \/ ~IsDigit(SubSeq(t, i, i)) THEN [nan |-> TRUE, val |-> 0]
  ELSE [nan |-> FALSE, val |-> ParseDigits(t, i, 0)]

\* const parse = t => { p = t.split(':'); parseInt(p[0])*60 + parseInt(p[1]) }
ParseClock(t) ==
  LET p == SplitFrom(t, 1, "", {":"})
      min == ParseIntStr(p[1])
      sec == IF Len(p) >= 2 THEN ParseIntStr(p[2])
             ELSE [nan |-> TRUE, val |-> 0]
  IN IF min.nan \/ sec.nan THEN [nan |-> TRUE, val |-> 0]
     ELSE [nan |-> FALSE, val |-> min.val * 60 + sec.val]

\* The play-progress line (index.js:635-644).  A progress without '/' makes
\* parse(undefined) throw, and the catch leaves the clause as it is; pct is
\* NaN, and no line is added, when a part does not parse or both are 0.
ProgressLine(progress) ==
  LET parts == SplitFrom(progress, 1, "", {"/"}) IN
  IF Len(parts) < 2 THEN ""
  ELSE LET curr == ParseClock(parts[1])
           total == ParseClock(parts[2])
       IN IF curr.nan \/ total.nan THEN ""
          ELSE IF total.val = 0
               THEN (IF curr.val = 0 THEN "" ELSE "\n(the bar is at its end)")
          ELSE IF curr.val * 100 < 5 * total.val
               THEN "\n(the bar has only just started)"
          ELSE IF curr.val * 100 > 90 * total.val
               THEN "\n(the bar is at its end)"
          ELSE ""

\* detailObservation (index.js:624-650)
DetailObservation(ctx) ==
  IF Platform(ctx.note) = "bilibili"
  THEN (IF ctx.action = "coin"
        THEN (IF IsBingeWatching(ctx) THEN "(of all videos, a coin for this)"
              ELSE "(a coin without hesitation)")
        ELSE "")
       \o (IF StrOr(ctx.note, "play_progress", "") # ""
           THEN ProgressLine(ctx.note.play_progress) ELSE "")
  ELSE IF ctx.action = "like" /\ IsBingeWatching(ctx)
       THEN "(after fast scrolling, a like at last)"
       ELSE ""

\* Mutant: the draft instruction is never written.
DraftInstruction_never(ctx) == ""

\* draftInstruction (index.js:656-659)
DraftInstruction(ctx) ==
  IF Len(Hits(ctx)) > 0
  THEN "\n[system: cross-platform link found; to help him interact, end the"
       \o " reply with a comment draft in this form: (draft: your comment)]"
  ELSE ""

\* telemetry.f as a flag; undefined is falsy
Flag(r, f) == f \in DOMAIN r /\ r[f] = TRUE

\* sensoryObservation (index.js:664-688)
SensoryObservation(telemetry, platform) ==
  IF telemetry = NULL THEN ""
  ELSE LET gaming == Field(telemetry, "gaming_session") IN
       (IF Flag(telemetry, "memory_pressure")
        THEN "(the fans are louder than usual)\n" ELSE "")
       \o (IF gaming = NULL THEN ""
           ELSE IF gaming.status = "cooldown"
                THEN (IF gaming.duration_minutes > LONG_SESSION_MINUTES
                      THEN "(user rubs a sore wrist after a long fight)\n"
                      ELSE "(user has just ended a short fight)\n")
           ELSE IF gaming.status = "gaming" /\ platform # "bilibili"
                THEN "(a large program runs in the background)\n"
           ELSE "")

\* narrativeBody: the template of index.js:690-695.  trim() removes the
\* newline before vibeIntro and nothing else: vibeIntro is never empty and
\* the text ends with the closing bracket of its last clause.
NarrativeBody(ctx, hour, telemetry) ==
  VibeIntro(ctx, hour) \o "\n"
  \o SensoryObservation(telemetry, Platform(ctx.note)) \o "\n"
  \o InternalMonologue(ctx) \o "\n"
  \o DetailObservation(ctx) \o "\n"
  \o "(a moment of silence)" \o DraftInstruction(ctx)

\* buildInjectionText(ctx, settings): settings is not read; telemetry is the
\* extension's latestTelemetry.
BuildInjectionText(ctx, hour, telemetry) ==
  LET formattedText == ctx.formatted_text IN
  IF formattedText = "" THEN NULL
  ELSE Str(formattedText \o "\n\n" \o NarrativeBody(ctx, hour, telemetry))

\* ------------------------------------------------ injectContextToChatHistory
\* The text submitted through #send_but, or null when nothing is submitted.
InjectContextToChatHistory(ctx, dom, hour, telemetry) ==
  LET injectionText == BuildInjectionText(ctx, hour, telemetry) IN
  IF injectionText = NULL THEN NULL
  ELSE IF ~dom.send_textarea THEN NULL
  ELSE IF ~dom.send_but THEN NULL
  ELSE IF dom.draft # "" THEN Str(dom.draft \o "\n\n" \o injectionText.str)
  ELSE injectionText

\* ctx.injected_to_chat = true, after sendBtn.click()
MarkInjected(ctx, submitted) ==
  IF submitted # NULL THEN [ctx EXCEPT !.injected_to_chat = TRUE] ELSE ctx

\* The ids of the texts submitted so far.
Sent(text, id) == [id |-> id, text |-> text.str]

\* ------------------------------------------------------- fetchLatestContext
\* JSON.parse of the event of a response: a new object without the
\* extension's own injected_to_chat property.
ParseContext(c) ==
  [id |-> c.id, action |-> c.action, formatted_text |-> c.formatted_text,
   note |-> c.note, received_at |-> c.received_at,
   buffer_entries |-> c.buffer_entries, injected_to_chat |-> FALSE]

\* Mutant: every returned event counts as new.
IsNew_always(id, lastId) == TRUE

\* const isNew = data.context.id !== lastContextId
IsNew(id, lastId) == id # lastId

\* Mutant: the cached event is kept when the event is reported unavailable.
DropCached_keep(cached) == cached

\* if (latestContext !== null) latestContext = null
DropCached(cached) == IF cached # NULL THEN NULL ELSE cached

\* The extension's handling of a parsed response body (index.js:220-290).
HandleContext(data, dom, hour) ==
  /\ uiLatestTelemetry' = IF Field(data, "system_telemetry") # NULL
                          THEN data.system_telemetry ELSE uiLatestTelemetry
  /\ IF data.available /\ data.context # NULL
     THEN LET ctx == ParseContext(data.context)
              isNew == IsNew(ctx.id, lastContextId)
              submitted == IF isNew /\ data.should_trigger
                           THEN InjectContextToChatHistory(ctx, dom, hour,
                                                        uiLatestTelemetry')
                           ELSE NULL
          IN /\ lastContextId' = IF isNew THEN ctx.id ELSE lastContextId
             /\ uiLatestContext' = IF isNew THEN MarkInjected(ctx, submitted)
                                   ELSE uiLatestContext
             /\ sent' = IF submitted # NULL
                        THEN Append(sent, Sent(submitted, ctx.id)) ELSE sent
             /\ toast' = IF isNew /\ settings.show_notification
                         THEN ctx.id ELSE NULL
             /\ visCalls' = IF isNew /\ data.should_trigger
                            THEN Append(visCalls, ctx.id) ELSE visCalls
             /\ pollOutcome' = "handled"
             /\ UNCHANGED uiLatestSystemNote
     ELSE /\ uiLatestContext' = DropCached(uiLatestContext)
          /\ uiLatestSystemNote' = IF Truthy(Field(data, "system_note"))
                                   THEN data.system_note ELSE uiLatestSystemNote
          /\ toast' = NULL
          /\ pollOutcome' = "handled"
          /\ UNCHANGED <<lastContextId, sent, visCalls>>

\* settings.max_context_age || 300, sent as the max_age query
MaxAgeQuery == QInt(NumOr(settings.max_context_age, DEFAULT_MAX_AGE))

\* fetchLatestContext() against the server plugin: the poll timer, the
\* refresh button and the chat-changed handler all call it.  ok is false
\* when the request fails or the status is not OK; the route has not run.
FetchLatestContext(ok, dom, hour) ==
  /\ settings.enabled
  /\ IF ok
     THEN /\ ContextRoute(MaxAgeQuery)
          /\ HandleContext(lastResp', dom, hour)
          /\ UNCHANGED <<isPluginAvailable, settings, chat, inflight, lastGen,
                         genOn>>
     ELSE UNCHANGED vars

\* fetchLatestContext() up to its first await (index.js:201-215): the
\* request is sent and the route answers; the body is in flight until the
\* await resumes.  The timer, the refresh button and the chat-changed
\* handler start polls independently of each other.
PollSend ==
  /\ settings.enabled
  /\ BagCardinality(inflight) < MaxInflight
  /\ ContextRoute(MaxAgeQuery)
  /\ inflight' = inflight (+) SetToBag({lastResp'})
  /\ UNCHANGED <<uiLatestContext, lastContextId, uiLatestSystemNote,
                 isPluginAvailable, settings, chat, sent, lastGen, genOn,
                 visCalls, toast,
                 pollOutcome, uiLatestTelemetry>>

\* fetchLatestContext() from the await on (index.js:218-290), for a body
\* that arrives with an OK status and parses.
PollDeliver(data, dom, hour) ==
  /\ BagIn(data, inflight)
  /\ inflight' = inflight (-) SetToBag({data})
  /\ HandleContext(data, dom, hour)
  /\ UNCHANGED <<storeVars, now, lastResp, ghostVars, isPluginAvailable,
                 settings, chat, lastGen, genOn>>

\* Mutant: a failed poll drops the cached event.
OnPollFailure_dropsCache(cached) == NULL

\* return null at index.js:218 and in the catch at 291-294
OnPollFailure(cached) == cached

\* fetchLatestContext() from the await on, when the connection breaks, the
\* status is not OK or the body does not parse: the route has run, the
\* function returns null.
PollFail(data) ==
  /\ BagIn(data, inflight)
  /\ inflight' = inflight (-) SetToBag({data})
  /\ uiLatestContext' = OnPollFailure(uiLatestContext)
  /\ pollOutcome' = "failed"
  /\ UNCHANGED <<storeVars, now, lastResp, ghostVars, lastContextId,
                 uiLatestSystemNote, isPluginAvailable, settings, chat, sent,
                 lastGen, genOn, visCalls, toast, uiLatestTelemetry>>

\* ------------------------------------------------ companionLinkInterceptor
\* Mutant: quiet generations are treated like the others.
IsQuiet_never(type) == FALSE

\* if (type === 'quiet') return
IsQuiet(type) == type = "quiet"

\* chat.findIndex(m => m.extra?.companion_link_system_note === true),
\* counted from 1; 0 stands for JavaScript's -1.
FindSystemNote(c) ==
  LET hits == {i \in 1..Len(c) : c[i].extra.companion_link_system_note} IN
  IF hits = {} THEN 0 ELSE CHOOSE i \in hits : \A j \in hits : i <= j

\* Mutant: the splice deletes the entry at pos.
SpliceIn_over(c, pos, m) ==
  SubSeq(c, 1, pos) \o <<m>> \o SubSeq(c, pos + 2, Len(c))

\* chat.splice(pos, 0, m), pos counted from 0
SpliceIn(c, pos, m) == SubSeq(c, 1, pos) \o <<m>> \o SubSeq(c, pos + 1, Len(c))

\* systemNoteMsg (role and content repeat is_system and mes)
SystemNoteMsg ==
  [is_user |-> FALSE, is_system |-> TRUE, mes |-> uiLatestSystemNote.str,
   extra |-> [type |-> "narrator", companion_link_system_note |-> TRUE,
              companion_link |-> FALSE, cl_action |-> NULL,
              cl_context_id |-> NULL]]

\* Mutant: a new note goes to the head of the array.
InsertPos_head(len) == 0

\* const insertPos = Math.min(1, chat.length)
InsertPos(len) == Min(1, len)

\* Mutant: the note is inserted whether or not one is already present.
UpsertSystemNote_insert(c, m) == SpliceIn(c, InsertPos(Len(c)), m)

\* Replace the first marked entry in place, or insert at Math.min(1, length).
UpsertSystemNote(c, m) ==
  LET existingIdx == FindSystemNote(c) IN
  IF existingIdx >= 1 THEN [c EXCEPT ![existingIdx] = m]
  ELSE SpliceIn(c, InsertPos(Len(c)), m)

\* Step 1 of the interceptor: if (latestSystemNote) { ... }
AmbientStep(c) ==
  IF Truthy(uiLatestSystemNote) THEN UpsertSystemNote(c, SystemNoteMsg) ELSE c

\* The message the interceptor builds for the cached event.
EventMsg(ctx, text) ==
  [is_user |-> TRUE, is_system |-> FALSE, mes |-> text,
   extra |-> [type |-> "narrator", companion_link_system_note |-> FALSE,
              companion_link |-> TRUE, cl_action |-> ctx.action,
              cl_context_id |-> ctx.id]]

\* Mutant: the message is appended whatever the position setting.
Place_append(c, m, position) == Append(c, m)

\* switch (settings.inject_position)
Place(c, m, position) ==
  CASE position = "start" -> SpliceIn(c, 0, m)
    [] position = "end" -> Append(c, m)
    [] OTHER -> IF Len(c) > 0 THEN SpliceIn(c, Len(c) - 1, m) ELSE Append(c, m)

\* Mutant: no cached event counts as expired.
Stale_never(ctx) == FALSE

\* ageMs > settings.max_context_age * 1000
Stale(ctx) ==
  now - DateParse(ctx.received_at) > settings.max_context_age * MS_PER_SEC

\* Step 2 of the interceptor: the cached event.
EventStep(c, hour) ==
  IF uiLatestContext = NULL THEN c
  ELSE IF uiLatestContext.injected_to_chat THEN c
  ELSE IF Stale(uiLatestContext) THEN c
  ELSE LET injectionText == BuildInjectionText(uiLatestContext, hour,
                                               uiLatestTelemetry) IN
       IF injectionText = NULL THEN c
       ELSE Place(c, EventMsg(uiLatestContext, injectionText.str),
                  settings.inject_position)

\* Mutant: the enable flag is not looked at.
Disabled_never(s) == FALSE

\* if (!settings.enabled) return
Disabled(s) == ~s.enabled

\* The array after one call of the interceptor.
Intercepted(c, type, hour) ==
  IF IsQuiet(type) THEN c
  ELSE IF Disabled(settings) THEN c
  ELSE EventStep(AmbientStep(c), hour)

CompanionLinkInterceptor(type, hour) ==
  /\ Len(Intercepted(chat, type, hour)) <= MaxChat
  /\ chat' = Intercepted(chat, type, hour)
  /\ lastGen' = type
  /\ genOn' = settings.enabled
  /\ UNCHANGED <<storeVars, now, lastResp, ghostVars, uiLatestContext,
                 lastContextId, uiLatestSystemNote, isPluginAvailable,
                 settings, inflight, sent, visCalls, toast,
                 pollOutcome, uiLatestTelemetry>>

\* The host starts a generation on an array of its own.
NewChat(c) ==
  /\ chat' = c
  /\ UNCHANGED <<storeVars, now, lastResp, ghostVars, uiLatestContext,
                 lastContextId, uiLatestSystemNote, isPluginAvailable,
                 settings, inflight, sent, lastGen, genOn, visCalls, toast,
                 pollOutcome, uiLatestTelemetry>>

\* ------------------------------------------------------------------ buttons
\* The object the test button builds (index.js:877-889): it has no
\* formatted_text.  Its id 'test-<ms>' is written <<ms, -1>>: no id of the
\* server ('cl_<ms>_<suffix>') has that form.
TestContext ==
  [id |-> <<now, -1>>, action |-> "like", formatted_text |-> "",
   note |-> [title |-> "test note"], received_at |-> ToISOString(now),
   injected_to_chat |-> FALSE]

\* #cl_ext_test click
TestButton(dom, hour) ==
  LET submitted == InjectContextToChatHistory(TestContext, dom, hour,
                                             uiLatestTelemetry) IN
  /\ uiLatestContext' = MarkInjected(TestContext, submitted)
  /\ lastContextId' = TestContext.id
  /\ sent' = IF submitted # NULL
             THEN Append(sent, Sent(submitted, TestContext.id)) ELSE sent
  /\ UNCHANGED <<storeVars, now, lastResp, ghostVars, uiLatestSystemNote,
                 isPluginAvailable, settings, chat, inflight, lastGen, genOn,
                 visCalls, toast,
                 pollOutcome, uiLatestTelemetry>>

\* #cl_ext_clear click: POST /clear when the plugin was detected, then the
\* cache and the last-seen id are dropped.
ClearButton ==
  /\ IF isPluginAvailable
     THEN ClearRoute(FALSE)
     ELSE UNCHANGED <<storeVars, now, lastResp, ghostVars>>
  /\ uiLatestContext' = NULL
  /\ lastContextId' = NULL
  /\ UNCHANGED <<uiLatestSystemNote, isPluginAvailable, settings, chat,
                 inflight, sent, lastGen, genOn, visCalls, toast,
                 pollOutcome, uiLatestTelemetry>>

\* #cl_ext_enabled change: settings.enabled = e.target.checked
SetEnabled(checked) ==
  /\ settings' = [settings EXCEPT !.enabled = checked]
  /\ UNCHANGED <<storeVars, now, lastResp, ghostVars, uiLatestContext,
                 lastContextId, uiLatestSystemNote, isPluginAvailable, chat,
                 inflight, sent, lastGen, genOn, visCalls, toast,
                 pollOutcome, uiLatestTelemetry>>

\* checkPluginAvailability(), run at start-up and every ten seconds until
\* it succeeds: GET /status; ok is false when the request fails.
CheckPluginAvailability(ok) ==
  /\ ~isPluginAvailable
  /\ IF ok THEN StatusRoute
     ELSE UNCHANGED <<storeVars, now, lastResp, ghostVars>>
  /\ isPluginAvailable' = ok
  /\ UNCHANGED <<uiLatestContext, lastContextId, uiLatestSystemNote, settings,
                 chat, inflight, sent, lastGen, genOn, visCalls, toast,
                 pollOutcome, uiLatestTelemetry>>

\* ----------------------------------------------------------- specifications
\* The store and its read routes: ingestion, ambient note, retrieval,
\* history, clear and status, with the clock running.
Next ==
  \/ \E t \in RequestTimes : Tick(t)
  \/ \E body \in StoreBodies : Inject(body, 0)
  \/ \E text \in NoteTexts : InjectSystemNote(text)
  \/ \E q \in MaxAgeQueries : Context(q)
  \/ \E q \in LimitQueries : History(q)
  \/ \E c \in BOOLEAN : Clear(c)
  \/ Status

Spec == Init /\ [][Next]_vars

\* The trigger flag: trigger sets and retrievals interleaved with ingestion,
\* clear and the clock.
NextTrigger ==
  \/ \E t \in CoarseTimes : Tick(t)
  \/ \E body \in TriggerBodies : Inject(body, 0)
  \/ \E q \in MaxAgeQueries : Context(q)
  \/ \E c \in BOOLEAN : Clear(c)
  \/ Trigger

SpecTrigger == Init /\ [][NextTrigger]_vars

\* Every route of the plugin interleaved, with the default queries and
\* requests arriving within the first second or after the default max age.
NextAll ==
  \/ \E t \in CoarseTimes : Tick(t)
  \/ \E body \in StoreBodies : Inject(body, 0)
  \/ \E text \in NoteTexts : InjectSystemNote(text)
  \/ Context(QAbsent)
  \/ History(QAbsent)
  \/ \E c \in BOOLEAN : Clear(c)
  \/ Status
  \/ Trigger

SpecAll == Init /\ [][NextAll]_vars

\* Ingestion of every kind of body, back to back and a millisecond apart,
\* with either id suffix.
NextIngest ==
  \/ \E t \in IngestTimes : Tick(t)
  \/ \E body \in InjectBodies, r \in RandSuffixes : Inject(body, r)
  \/ History(QAbsent)
  \/ \E c \in BOOLEAN : Clear(c)

SpecIngest == Init /\ [][NextIngest]_vars

\* The extension against the server plugin, on the page of a running host.
LinkSettings ==
  {s \in SavedSettings : s.enabled /\ s.inject_position = "end"}

InitLink == ServerInit /\ ClientInit /\ settings \in LinkSettings

\* POST /inject from the backend while the extension is running.
LinkInject(body) == nIngested < MaxLinkEvents /\ Inject(body, 0)

NextLink ==
  \/ \E t \in LinkTimes : Tick(t)
  \/ \E body \in LinkBodies : LinkInject(body)
  \/ Trigger
  \/ \E ok \in BOOLEAN : CheckPluginAvailability(ok)
  \/ \E ok \in BOOLEAN : FetchLatestContext(ok, HostDom, 12)
  \/ CompanionLinkInterceptor("normal", 12)
  \/ NewChat(<<>>)
  \/ TestButton(HostDom, 12)
  \/ ClearButton

SpecLink == InitLink /\ [][NextLink]_vars

\* The extension alone.  Bodies a /context endpoint answers with: the three
\* shapes of server/index.js:121-151, each with and without the system_note
\* the extension reads at index.js:279.
ContextResponses ==
  {[available |-> FALSE, context |-> NULL, should_trigger |-> FALSE,
    system_note |-> n] : n \in {NULL, Str("mood")}}
  \cup
  {[available |-> TRUE, context |-> NewEntry(b, 0), should_trigger |-> st,
    system_note |-> n] :
      b \in LinkBodies, st \in BOOLEAN, n \in {NULL, Str("mood")}}

\* fetchLatestContext() answered with the body data.
FetchFrom(data, dom, hour) ==
  /\ settings.enabled
  /\ HandleContext(data, dom, hour)
  /\ UNCHANGED <<storeVars, now, lastResp, ghostVars, isPluginAvailable,
                 settings, chat, inflight, lastGen, genOn>>

ClientSettings == {s \in SavedSettings : s.context_max_length = 1200}

InitClient == ServerInit /\ ClientInit /\ settings \in ClientSettings

NextClient ==
  \/ \E t \in LinkTimes : Tick(t)
  \/ \E data \in ContextResponses, dom \in Doms : FetchFrom(data, dom, 3)
  \/ \E type \in GenerationTypes : CompanionLinkInterceptor(type, 3)
  \/ \E c \in BaseChats : NewChat(c)

SpecClient == InitClient /\ [][NextClient]_vars

\* The extension alone on the page of a running host, with the user
\* switching the enable flag while events and notes are cached.
NextSwitch ==
  \/ \E t \in LinkTimes : Tick(t)
  \/ \E data \in ContextResponses : FetchFrom(data, HostDom, 3)
  \/ \E type \in GenerationTypes : CompanionLinkInterceptor(type, 3)
  \/ NewChat(<<HostMsg("sys")>>)
  \/ \E checked \in BOOLEAN : SetEnabled(checked)

SpecSwitch == InitClient /\ [][NextSwitch]_vars

\* The ambient note on its way from the server plugin to the interceptor:
\* the backend pushes events and notes, the extension polls and the host
\* generates.
NextNote ==
  \/ \E t \in LinkTimes : Tick(t)
  \/ \E body \in TriggerBodies : LinkInject(body)
  \/ \E text \in NoteTexts : InjectSystemNote(text)
  \/ \E ok \in BOOLEAN : FetchLatestContext(ok, HostDom, 12)
  \/ CompanionLinkInterceptor("normal", 12)
  \/ NewChat(<<HostMsg("sys")>>)

SpecNote == InitLink /\ [][NextNote]_vars

\* Instants of the runs with polls in flight: the start and a millisecond
\* later.
PollTimes == {t \in IngestTimes : t <= 1}

\* The extension after init() has found the plugin and started the poll
\* timer (index.js:1067-1073).
InitPoll ==
  /\ ServerInit
  /\ uiLatestContext = NULL
  /\ lastContextId = NULL
  /\ uiLatestSystemNote = NULL
  /\ isPluginAvailable = TRUE
  /\ settings = DEFAULT_SETTINGS
  /\ chat = <<>>
  /\ inflight = EmptyBag
  /\ sent = <<>>
  /\ lastGen = "none"
  /\ genOn = FALSE
  /\ visCalls = <<>>
  /\ toast = NULL
  /\ pollOutcome = "none"
  /\ uiLatestTelemetry = NULL

\* The extension against the server plugin with the awaits of its polls
\* made visible: polls overlap and their bodies arrive in any order.
NextPoll ==
  \/ \E t \in PollTimes : Tick(t)
  \/ \E body \in TriggerBodies : LinkInject(body)
  \/ Trigger
  \/ PollSend
  \/ \E data \in BagToSet(inflight) : PollDeliver(data, HostDom, 12)
  \/ \E data \in BagToSet(inflight) : PollFail(data)
  \/ ClearButton
  \/ \E checked \in BOOLEAN : SetEnabled(checked)

SpecPoll == InitPoll /\ [][NextPoll]_vars

\* Polls that end either way, handled or failed, while the backend pushes
\* events and triggers.
NextRetry ==
  \/ \E t \in PollTimes : Tick(t)
  \/ \E body \in TriggerBodies : LinkInject(body)
  \/ Trigger
  \/ PollSend
  \/ \E data \in BagToSet(inflight) : PollDeliver(data, HostDom, 12)
  \/ \E data \in BagToSet(inflight) : PollFail(data)

SpecRetry == InitPoll /\ [][NextRetry]_vars

\* The extension alone, fed events of both platforms with buffer entries
\* and telemetry, at noon and in the small hours.
\* Notes of the current event.
BiliNote ==
  [title |-> "Wuthering Waves Guide", platform |-> "bilibili",
   tags |-> <<"Game", "Strategy">>, play_progress |-> "00:10 / 10:00"]
XhsNote == [title |-> "Wuthering Waves Guide", platform |-> "xiaohongshu"]
PlainNote == [title |-> "T"]
TextNotes == {BiliNote, XhsNote, PlainNote}

\* Buffer entries: of either platform or of none, with and without a tag or
\* a title in common with the notes above.
XhsTagEntry ==
  [title |-> "Outfit", tags |-> <<"Game", "Art">>,
   url |-> "https://www.xiaohongshu.com/explore/123"]
XhsTitleEntry ==
  [title |-> "Wuthering fan art", tags |-> <<>>,
   url |-> "https://www.xiaohongshu.com/explore/124"]
XhsOtherEntry ==
  [title |-> "Outfit", tags |-> <<"Art">>,
   url |-> "https://www.xiaohongshu.com/explore/125"]
BiliEntry ==
  [title |-> "Waves boss run", tags |-> <<"Game">>,
   url |-> "https://www.bilibili.com/video/456"]
NoUrlEntry == [title |-> "Wuthering Waves", tags |-> <<"Game">>, url |-> ""]
TextBuffers ==
  { <<>>, <<XhsTagEntry>>, <<XhsTitleEntry>>, <<XhsOtherEntry>>,
    <<BiliEntry>>, <<NoUrlEntry>>,
    <<BiliEntry, BiliEntry, XhsOtherEntry, NoUrlEntry>>,
    <<XhsOtherEntry, BiliEntry, XhsOtherEntry, XhsTagEntry>> }

\* Request bodies of POST /inject with these notes and buffers.
TextBodies ==
  {[action |-> a, formatted_text |-> "A liked note", note |-> n,
    buffer_entries |-> b] :
      a \in {"like", "coin"}, n \in TextNotes, b \in TextBuffers}

\* Telemetry as the interceptor reads it (index.js:665-687), and the record
\* of a finished game that tests/test_frontend_inject.js:7-18 works with.
PlayedTelemetry ==
  [last_session |-> [type |-> "gaming", name |-> "Wuthering Waves",
                     duration_minutes |-> 60, minutes_ago |-> 5],
   resources |-> [memory_pressure |-> TRUE, cpu_load |-> 85]]
Telemetries ==
  { NULL,
    [memory_pressure |-> TRUE,
     gaming_session |-> [status |-> "cooldown", duration_minutes |-> 45]],
    [memory_pressure |-> FALSE,
     gaming_session |-> [status |-> "cooldown", duration_minutes |-> 10]],
    [memory_pressure |-> FALSE,
     gaming_session |-> [status |-> "gaming", duration_minutes |-> 5]],
    PlayedTelemetry }

\* Bodies of GET /context that carry such an event (server/index.js:141-151).
TextResponses ==
  {[available |-> TRUE, context |-> NewEntry(b, 0), should_trigger |-> FALSE,
    system_note |-> NULL, system_telemetry |-> t] :
      b \in TextBodies, t \in Telemetries}

\* Hours of the day at which a text is built.
TextHours == {3, 12}

InitText == ServerInit /\ ClientInit /\ settings = DEFAULT_SETTINGS

\* Event messages in the array a generation of this specification starts
\* with.
MaxTextChat == 1

\* A generation on an array that holds fewer than MaxTextChat messages.
TextGenerate(hour) ==
  /\ Len(chat) < MaxTextChat
  /\ CompanionLinkInterceptor("normal", hour)

NextText ==
  \/ \E data \in TextResponses : FetchFrom(data, HostDom, 12)
  \/ \E hour \in TextHours : TextGenerate(hour)
  \/ NewChat(<<>>)

SpecText == InitText /\ [][NextText]_vars

\* ------------------------------------------------------------------ claims
\* Age in milliseconds of the latest event, as the store computes it.
AgeMs == now - DateParse(latestContext.received_at)

\* C1: after accepted ingestions E1..En with no clear in between, the store
\* holds En as latest, a GET /context made at once returns En, and
\* GET /history returns the events most recent first: item i is the i-th
\* most recent ingestion.
C1_LatestAndHistoryOrder ==
  /\ (lastResp.op = "inject" /\ lastResp.success) =>
        /\ latestContext # NULL
        /\ latestContext.id = lastResp.id
        /\ latestContext.seq = nIngested
        /\ contextHistory[1] = latestContext
  /\ (lastResp.op = "context" /\ latestContext # NULL /\ AgeMs = 0
        /\ lastResp.max_age >= 0) =>
        /\ lastResp.available
        /\ lastResp.context = latestContext
        /\ lastResp.context.seq = nIngested
  /\ lastResp.op = "history" =>
        /\ \A i \in 1..Len(lastResp.items) :
             i <= sinceClear => lastResp.items[i].seq = nIngested - i + 1
        /\ \A i, j \in 1..Len(lastResp.items) :
             i < j => lastResp.items[i].seq > lastResp.items[j].seq

C1_Witness ==
  /\ lastResp.op = "history"
  /\ Len(lastResp.items) = MAX_HISTORY
  /\ sinceClear >= MAX_HISTORY

\* C2: the history ring never holds more than MAX_HISTORY events, and an
\* ingestion into a full ring drops exactly the oldest event and keeps the
\* others in order behind the new one.
C2_RingBounded ==
  [][ /\ Len(contextHistory') <= MAX_HISTORY
      /\ (nIngested' = nIngested + 1 /\ Len(contextHistory) = MAX_HISTORY) =>
            /\ Len(contextHistory') = MAX_HISTORY
            /\ contextHistory'[1].seq = nIngested'
            /\ Tail(contextHistory') = SubSeq(contextHistory, 1, MAX_HISTORY - 1)
    ]_vars

C2_Witness ==
  /\ Len(contextHistory) = MAX_HISTORY
  /\ sinceClear > MAX_HISTORY
  /\ contextHistory[MAX_HISTORY].seq = nIngested - MAX_HISTORY + 1

\* C3: GET /context with max age M reports unavailable exactly when no event
\* is stored or the latest event is more than M seconds old; at exactly M
\* seconds it is available; an expired result carries an "expired" reason.
C3_ExpiryBoundary ==
  [][ \A q \in MaxAgeQueries : Context(q) =>
        LET M == lastResp'.max_age IN
        /\ (~lastResp'.available) <=>
              (latestContext = NULL \/ AgeMs > M * MS_PER_SEC)
        /\ (latestContext # NULL /\ AgeMs > M * MS_PER_SEC) =>
              /\ "reason" \in DOMAIN lastResp'
              /\ lastResp'.reason[1] = "expired"
    ]_vars

C3_Witness ==
  /\ lastResp.op = "context"
  /\ lastResp.available
  /\ lastResp.max_age > 0
  /\ latestContext # NULL
  /\ AgeMs = lastResp.max_age * MS_PER_SEC

\* C4: after POST /trigger the next GET /context that finds an available
\* event returns should_trigger = true, and a GET /context that directly
\* follows one that returned true returns should_trigger = false.
C4_TriggerOneShot ==
  [][ \A q \in MaxAgeQueries : Context(q) =>
        /\ (lastResp'.available /\ armed) => lastResp'.should_trigger
        /\ (lastResp.op = "context" /\ lastResp.should_trigger) =>
              ~lastResp'.should_trigger
    ]_vars

C4_Witness ==
  /\ lastResp.op = "context"
  /\ lastResp.available
  /\ ~lastResp.should_trigger
  /\ nDelivered = 1
  /\ nTrigSets = 1

\* C5: triggers are not queued: the number of should_trigger = true responses
\* never exceeds the number of retrieval-separated groups of POST /trigger
\* calls, however many calls a group has.
C5_NoQueueing == nDelivered <= nTrigSets

C5_Witness ==
  /\ lastResp.op = "context"
  /\ lastResp.should_trigger
  /\ setCalls >= 2
  /\ nDelivered = 1
  /\ nTrigSets = 1

\* C6 as stated: after any GET /context, whether the event was available,
\* expired or absent, pendingTrigger is false.
C6_Original == lastResp.op = "context" => ~pendingTrigger

\* C6 amended: a GET /context that finds an available event leaves
\* pendingTrigger false; one that finds the event expired or finds no event
\* leaves pendingTrigger as it was.
C6_ResetOnAvailableOnly ==
  [][ \A q \in MaxAgeQueries : Context(q) =>
        IF lastResp'.available
        THEN ~pendingTrigger'
        ELSE pendingTrigger' = pendingTrigger
    ]_vars

C6_Witness ==
  /\ lastResp.op = "context"
  /\ ~lastResp.available
  /\ latestContext = NULL
  /\ pendingTrigger

\* C7: a trigger set is delivered exactly once, to the next retrieval that
\* finds a non-expired event: a retrieval reports should_trigger = true
\* exactly when it finds an available event and a trigger was set since the
\* last retrieval that found one.
C7_DeliveredToNextAvailable ==
  [][ \A q \in MaxAgeQueries : Context(q) =>
        (lastResp'.should_trigger <=> (lastResp'.available /\ armed))
    ]_vars

C7_Witness ==
  /\ lastResp.op = "context"
  /\ ~lastResp.available
  /\ "reason" \in DOMAIN lastResp
  /\ ~lastResp.should_trigger
  /\ armed
  /\ ~trigOpen

\* C8: POST /clear leaves no latest event and reports cleared exactly when an
\* event had been ingested since the previous clear; a clear that directly
\* follows a clear reports false; with clear_history the ring is empty.
C8_ClearReports ==
  [][ \A c \in BOOLEAN : Clear(c) =>
        /\ latestContext' = NULL
        /\ lastResp'.cleared <=> (sinceClear > 0)
        /\ lastResp.op = "clear" => ~lastResp'.cleared
        /\ c => contextHistory' = <<>>
    ]_vars

C8_Witness ==
  /\ lastResp.op = "clear"
  /\ lastResp.cleared
  /\ lastResp.clear_history
  /\ contextHistory = <<>>
  /\ nIngested > 0

\* C9: POST /clear without clear_history leaves the history ring as it was,
\* so right after it GET /context is unavailable while GET /history still
\* counts and returns the stored events.
C9_ClearKeepsHistory ==
  [][ /\ Clear(FALSE) => contextHistory' = contextHistory
      /\ (lastResp.op = "clear" /\ \E q \in MaxAgeQueries : Context(q)) =>
            ~lastResp'.available
      /\ (lastResp.op = "clear" /\ ~lastResp.clear_history
            /\ \E q \in LimitQueries : History(q)) =>
            /\ lastResp'.count = Len(contextHistory)
            /\ \A i \in 1..Len(lastResp'.items) :
                 lastResp'.items[i].seq = nIngested - i + 1
            /\ lastResp.cleared =>
                  /\ lastResp'.count >= 1
                  /\ History(QAbsent) => lastResp'.items[1].seq = nIngested
    ]_vars

C9_Witness ==
  /\ lastResp.op = "history"
  /\ latestContext = NULL
  /\ Len(lastResp.items) >= 1

\* C10: POST /inject without an action is answered 400 / success = false and
\* leaves latest event, history ring, trigger flag and ambient note as they
\* were.
C10_RejectLeavesStore ==
  [][ \A body \in InjectBodies :
        (body.action = "" /\ Inject(body, 0)) =>
          /\ lastResp'.status = 400
          /\ ~lastResp'.success
          /\ UNCHANGED storeVars
    ]_vars

C10_Witness ==
  /\ lastResp.op = "inject"
  /\ lastResp.status = 400
  /\ latestContext # NULL
  /\ latestSystemNote # NULL

\* An accepted event that has neither a narrative text nor a populated note.
Bare(e) == e.formatted_text = "" /\ e.note.title = ""

\* C11: a POST /inject with an action but neither formatted_text nor a
\* populated note is rejected: no such event is the latest event or sits in
\* the history ring.
C11_BareRejected ==
  /\ latestContext # NULL => ~Bare(latestContext)
  /\ \A i \in 1..Len(contextHistory) : ~Bare(contextHistory[i])

\* C12: any two events accepted in one run have different ids, also when
\* they are ingested in the same millisecond.
C12_UniqueIds ==
  \A i, j \in 1..Len(contextHistory) :
    i # j => contextHistory[i].id # contextHistory[j].id

\* C13: every GET /context response carries the ambient note once one has
\* been set, also when the event is expired or no event is stored.
C13_NoteOnEveryResponse ==
  (lastResp.op = "context" /\ latestSystemNote # NULL) =>
     /\ "system_note" \in DOMAIN lastResp
     /\ lastResp.system_note = Str(latestSystemNote.text)

\* C14: POST /inject_system_note and POST /trigger leave the latest event and
\* the history ring as they were; the note route also leaves the trigger
\* flag, and the trigger route the ambient note.
C14_NoteAndTriggerFrame ==
  [][ /\ (\E text \in NoteTexts : InjectSystemNote(text)) =>
            UNCHANGED <<latestContext, contextHistory, pendingTrigger>>
      /\ Trigger =>
            UNCHANGED <<latestContext, contextHistory, latestSystemNote>>
    ]_vars

C14_Witness ==
  /\ lastResp.op = "trigger"
  /\ latestContext # NULL
  /\ latestSystemNote # NULL
  /\ Len(contextHistory) >= 2

\* C15: no request sees a torn store: whenever there is a latest event it is
\* the first element of the history ring.
C15_LatestIsHead ==
  latestContext # NULL =>
     /\ contextHistory # <<>>
     /\ contextHistory[1] = latestContext

C15_Witness ==
  /\ lastResp.op \in {"context", "history", "status"}
  /\ latestContext # NULL
  /\ Len(contextHistory) = MAX_HISTORY
  /\ pendingTrigger

\* Entries of an array that carry the ambient-note marker.
Markers(c) == {i \in 1..Len(c) : c[i].extra.companion_link_system_note}

\* Number of event messages of an array tagged with the event id.
EventCount(c, id) ==
  Cardinality({i \in 1..Len(c) :
                 c[i].extra.companion_link /\ c[i].extra.cl_context_id = id})

\* C16: a call of the interceptor with generation kind 'quiet' leaves the
\* message array as it was, whatever is cached and whatever the settings.
C16_QuietLeavesChat ==
  [][ (\E hour \in 0..23 : CompanionLinkInterceptor("quiet", hour)) =>
         chat' = chat ]_vars

C16_Witness ==
  /\ lastGen = "quiet"
  /\ settings.enabled
  /\ Truthy(uiLatestSystemNote)
  /\ uiLatestContext # NULL
  /\ ~uiLatestContext.injected_to_chat
  /\ ~Stale(uiLatestContext)
  /\ uiLatestContext.formatted_text # ""
  /\ chat = <<HostMsg("sys")>>

\* C17: a non-quiet, enabled call with an ambient note cached and no event
\* cached leaves exactly one entry with the ambient-note marker; when the
\* array already had one, it stays at its index and the length is unchanged.
C17_NoteUpsertIdempotent ==
  [][ ( /\ \E hour \in 0..23 : CompanionLinkInterceptor("normal", hour)
        /\ settings.enabled
        /\ Truthy(uiLatestSystemNote)
        /\ uiLatestContext = NULL )
      => /\ Cardinality(Markers(chat')) = 1
         /\ Markers(chat) # {} =>
              /\ Markers(chat') = Markers(chat)
              /\ Len(chat') = Len(chat) ]_vars

C17_Witness ==
  /\ lastGen = "normal"
  /\ settings.enabled
  /\ Truthy(uiLatestSystemNote)
  /\ uiLatestContext = NULL
  /\ Len(chat) = 3
  /\ Markers(chat) = {2}

\* C18: the step in which the visible path submits an event's text sets
\* that event's injected flag, and from then on no step adds an event
\* message tagged with that event's id to the message array.
C18_VisibleThenNoInterceptor ==
  [][ /\ sent' # sent =>
            /\ uiLatestContext' # NULL
            /\ uiLatestContext'.id = sent'[Len(sent')].id
            /\ uiLatestContext'.injected_to_chat
      /\ \A i \in 1..Len(sent) :
            EventCount(chat', sent[i].id) <= EventCount(chat, sent[i].id)
    ]_vars

\* C19: a non-quiet, enabled call with a cached, fresh, not yet injected
\* event that has a populated note and an empty narrative text adds an event
\* message for that event.
C19_NoteOnlyInjected ==
  [][ ( /\ \E hour \in 0..23 : CompanionLinkInterceptor("normal", hour)
        /\ settings.enabled
        /\ uiLatestContext # NULL
        /\ ~uiLatestContext.injected_to_chat
        /\ ~Stale(uiLatestContext)
        /\ uiLatestContext.formatted_text = ""
        /\ uiLatestContext.note.title # "" )
      => EventCount(chat', uiLatestContext.id) >
           EventCount(chat, uiLatestContext.id) ]_vars

\* C20: every event message the interceptor has inserted and every text the
\* visible path has submitted is at most context_max_length characters long.
C20_TextWithinMaxLength ==
  /\ \A i \in 1..Len(chat) :
       chat[i].extra.companion_link =>
          Len(chat[i].mes) <= settings.context_max_length
  /\ \A i \in 1..Len(sent) :
       Len(sent[i].text) <= settings.context_max_length

\* C22: over ingestions, trigger sets, polls, clears and deliveries of poll
\* bodies, fetchLatestContext calls the visible path at most once for any
\* event id (ids of distinct events taken to be distinct, see C12).
C22_VisibleOncePerId ==
  (\A i, j \in 1..Len(contextHistory) :
      i # j => contextHistory[i].id # contextHistory[j].id)
  => \A i, j \in 1..Len(visCalls) : i # j => visCalls[i] # visCalls[j]

C23_TriggeredPollRunsVisible ==
  (lastResp.op = "context" /\ lastResp.available /\ lastResp.should_trigger)
  => \E i \in 1..Len(visCalls) : visCalls[i] = lastResp.context.id

\* Number of event messages of an array.
EventMsgs(c) == Cardinality({i \in 1..Len(c) : c[i].extra.companion_link})

\* C24: a poll answered with no available event (expired or absent) leaves
\* no event cached; while none is cached no step adds an event message to
\* the array; and an event is cached again only in a step that takes an id
\* different from the last-seen id as the new last-seen id.
C24_UnavailableStopsOffering ==
  [][ /\ \A data \in ContextResponses :
           (~data.available /\ \E dom \in Doms : FetchFrom(data, dom, 3))
           => uiLatestContext' = NULL
      /\ uiLatestContext = NULL => EventMsgs(chat') <= EventMsgs(chat)
      /\ (uiLatestContext = NULL /\ uiLatestContext' # NULL)
           => /\ uiLatestContext'.id # lastContextId
              /\ uiLatestContext'.id = lastContextId' ]_vars

C24_Witness ==
  /\ pollOutcome = "handled"
  /\ uiLatestContext = NULL
  /\ lastContextId # NULL
  /\ lastGen = "normal"
  /\ genOn
  /\ now = 0
  /\ Markers(chat) # {}
  /\ EventMsgs(chat) = 0

\* C25: after a successful poll the extension's cached ambient note is the
\* note the server held at that retrieval, whether the returned event was
\* new, unchanged or unavailable.  (The most recent request being the poll,
\* the server's note is still the one of the retrieval.)
C25_NoteFollowsServer ==
  lastResp.op = "context"
  => uiLatestSystemNote = IF latestSystemNote # NULL
                          THEN Str(latestSystemNote.text) ELSE NULL

\* C26: a poll that ends in a failure (the request fails, the status is not
\* OK or the body does not parse) leaves the extension's state as it was:
\* last-seen id, cached event with its injected flag, cached ambient note,
\* submitted texts, visible-path calls, notification and message array; and
\* it leaves the conditions under which the timer polls (enabled, plugin
\* available) as they were.
C26_FailedPollNoChange ==
  [][ ( /\ BagCardinality(inflight') < BagCardinality(inflight)
        /\ pollOutcome' = "failed" )
      => /\ UNCHANGED <<lastContextId, uiLatestContext, uiLatestSystemNote,
                        sent, visCalls, toast, chat>>
         /\ UNCHANGED <<settings, isPluginAvailable>> ]_vars

C26_Witness ==
  /\ pollOutcome = "failed"
  /\ inflight = EmptyBag
  /\ uiLatestContext # NULL
  /\ latestContext # NULL
  /\ latestContext.id # uiLatestContext.id
  /\ nDelivered = 1
  /\ visCalls = <<>>

\* Two ids-or-null are the same.
SameId(a, b) == IF a = NULL THEN b = NULL ELSE a = b

\* C27: a poll body that arrives after the feature was disabled is
\* discarded: the step that takes it out of flight leaves the last-seen id
\* and the cached event as they were, shows no notification, does not call
\* the visible path and submits nothing.
C27_LateResponseDiscarded ==
  [][ ( /\ BagCardinality(inflight') < BagCardinality(inflight)
        /\ ~settings.enabled )
      => /\ SameId(lastContextId', lastContextId)
         /\ SameId(toast', toast)
         /\ UNCHANGED <<uiLatestContext, visCalls, sent>> ]_vars

\* C28: with several polls in flight and their bodies handled in any order,
\* no step replaces the last-seen id or the cached event by one of an event
\* ingested earlier (the id's first component and received_at are the
\* instant of the ingestion).
C28_NoRevert ==
  [][ /\ (lastContextId # NULL /\ lastContextId' # NULL)
           => lastContextId'[1] >= lastContextId[1]
      /\ (uiLatestContext # NULL /\ uiLatestContext' # NULL)
           => DateParse(uiLatestContext'.received_at) >=
                DateParse(uiLatestContext.received_at) ]_vars

\* C30: a call of the interceptor while settings.enabled is off leaves the
\* message array as it was: no ambient note and no event message is
\* inserted or replaced, whatever is cached.
C30_DisabledLeavesChat ==
  [][ ( /\ \E type \in GenerationTypes, hour \in 0..23 :
             CompanionLinkInterceptor(type, hour)
        /\ ~settings.enabled )
      => chat' = chat ]_vars

C30_Witness ==
  /\ lastGen = "normal"
  /\ ~genOn
  /\ ~settings.enabled
  /\ Truthy(uiLatestSystemNote)
  /\ uiLatestContext # NULL
  /\ ~uiLatestContext.injected_to_chat
  /\ ~Stale(uiLatestContext)
  /\ uiLatestContext.formatted_text # ""
  /\ chat = <<HostMsg("sys")>>

\* C31: in a non-quiet, enabled cycle with an ambient note cached, the
\* array a the ambient step hands to the event step is: the note appended,
\* for an empty array; the note at index 1 with the entry at index 0 left at
\* index 0 and the others moved up by one, for a non-empty array without a
\* marked entry; the array with the marked entry replaced at its index and
\* the length unchanged, when a marked entry is present.
C31_NoteUpsertPlace ==
  [][ ( /\ CompanionLinkInterceptor("normal", 3)
        /\ settings.enabled
        /\ Truthy(uiLatestSystemNote) )
      => LET a == AmbientStep(chat)
             n == Len(chat)
         IN /\ chat' = EventStep(a, 3)
            /\ (Markers(chat) = {} /\ n = 0) => a = <<SystemNoteMsg>>
            /\ (Markers(chat) = {} /\ n > 0) =>
                  /\ Len(a) = n + 1
                  /\ a[1] = chat[1]
                  /\ a[2] = SystemNoteMsg
                  /\ \A i \in 2..n : a[i + 1] = chat[i]
            /\ Markers(chat) # {} =>
                  /\ Len(a) = n
                  /\ Markers(a) = Markers(chat)
                  /\ \A i \in 1..n :
                       a[i] = IF i = FindSystemNote(chat)
                              THEN SystemNoteMsg ELSE chat[i] ]_vars

C31_Witness ==
  /\ lastGen = "normal"
  /\ genOn
  /\ Truthy(uiLatestSystemNote)
  /\ chat = <<HostMsg("sys"), SystemNoteMsg, HostMsg("hello")>>

\* Age of the cached event in milliseconds.
CachedAgeMs == now - DateParse(uiLatestContext.received_at)

\* C32: no interceptor cycle modifies the cached event (injected flag
\* included) or the last-seen id; and a non-quiet, enabled cycle whose
\* cached event is older than max_context_age adds no event message: the
\* array it leaves is the one of the ambient step.
C32_StaleSkipped ==
  [][ (\E type \in GenerationTypes : CompanionLinkInterceptor(type, 3))
      => /\ uiLatestContext' = uiLatestContext
         /\ SameId(lastContextId', lastContextId)
         /\ ( /\ lastGen' = "normal"
              /\ settings.enabled
              /\ uiLatestContext # NULL
              /\ CachedAgeMs > settings.max_context_age * MS_PER_SEC )
            => /\ chat' = AmbientStep(chat)
               /\ EventMsgs(chat') = EventMsgs(chat) ]_vars

C32_Witness ==
  /\ lastGen = "normal"
  /\ genOn
  /\ uiLatestContext # NULL
  /\ ~uiLatestContext.injected_to_chat
  /\ uiLatestContext.formatted_text # ""
  /\ CachedAgeMs > settings.max_context_age * MS_PER_SEC
  /\ Markers(chat) # {}
  /\ EventMsgs(chat) = 0

\* Index (from 1) at which an event message lands in an array of length len.
LandingIndex(position, len) ==
  CASE position = "start" -> 1
    [] position = "end" -> len + 1
    [] OTHER -> IF len = 0 THEN 1 ELSE len

\* C33: a non-quiet, enabled cycle with a cached, fresh, not yet injected
\* event that has a narrative text inserts exactly one event message into
\* the array a of length L left by the ambient step: at index 0 for 'start',
\* at index L for 'end', at index L-1 for 'before_last' (index 0 when L = 0).
\* The message carries the event's action and id, and the entries of a keep
\* their order around it.
C33_PlacementByPosition ==
  [][ ( /\ CompanionLinkInterceptor("normal", 3)
        /\ settings.enabled
        /\ uiLatestContext # NULL
        /\ ~uiLatestContext.injected_to_chat
        /\ CachedAgeMs <= settings.max_context_age * MS_PER_SEC
        /\ uiLatestContext.formatted_text # "" )
      => LET a == AmbientStep(chat)
             L == Len(a)
             k == LandingIndex(settings.inject_position, L)
         IN /\ Len(chat') = L + 1
            /\ chat'[k].extra.companion_link
            /\ chat'[k].extra.cl_action = uiLatestContext.action
            /\ chat'[k].extra.cl_context_id = uiLatestContext.id
            /\ EventMsgs(chat') = EventMsgs(a) + 1
            /\ \A i \in 1..L : a[i] = chat'[IF i < k THEN i ELSE i + 1] ]_vars

C33_Witness ==
  /\ lastGen = "normal"
  /\ genOn
  /\ settings.inject_position = "before_last"
  /\ uiLatestContext # NULL
  /\ Len(chat) = 3
  /\ chat[1] = HostMsg("sys")
  /\ chat[2].extra.companion_link
  /\ chat[2].extra.cl_context_id = uiLatestContext.id
  /\ chat[3] = HostMsg("hello")

\* C34: however many cycles have run over the array, it holds at most one
\* event message tagged with the id of the cached event.
C34_OneMessagePerEvent ==
  uiLatestContext # NULL => EventCount(chat, uiLatestContext.id) <= 1

\* An entry that carries neither the ambient-note marker nor the event
\* marker.
IsForeign(m) == ~m.extra.companion_link_system_note /\ ~m.extra.companion_link

\* The entries of an array the interceptor did not create, in order.
Foreign(c) == SelectSeq(c, IsForeign)

\* C35: an interceptor cycle leaves the entries it did not create as they
\* were: the subsequence of entries without the ambient-note marker and
\* without the event marker is the same before and after the cycle, for
\* every generation kind and position.
C35_ForeignUntouched ==
  [][ (\E type \in GenerationTypes : CompanionLinkInterceptor(type, 3))
      => Foreign(chat') = Foreign(chat) ]_vars

C35_Witness ==
  /\ lastGen = "normal"
  /\ genOn
  /\ Len(chat) = 4
  /\ Markers(chat) = {2}
  /\ EventMsgs(chat) = 1
  /\ Foreign(chat) = <<HostMsg("sys"), HostMsg("hello")>>

\* C36: the max age a GET /context call works with is a positive number,
\* whatever the max_age query: the default when it is absent or not a
\* number, a positive value when it is zero or negative.
C36_MaxAgePositive ==
  lastResp.op = "context" => lastResp.max_age > 0

\* C37: GET /history?limit=N answers with at most max(N, 0) items and at
\* most MAX_HISTORY items, the most recent stored events first; an absent
\* limit counts as limit 10.
C37_HistoryAtMostN ==
  [][ \A q \in LimitQueries :
        History(q) =>
          LET N     == IF q.kind = "int" THEN q.val ELSE DEFAULT_LIMIT
              items == lastResp'.items
          IN /\ Len(items) <= (IF N < 0 THEN 0 ELSE N)
             /\ Len(items) <= MAX_HISTORY
             /\ items = SubSeq(contextHistory, 1, Len(items)) ]_vars

\* The elements of a sequence.
Elements(xs) == {xs[i] : i \in 1..Len(xs)}

\* Some buffer entry of the other platform has a tag that is a tag or a
\* title keyword of the current event, or a title that contains one of the
\* current event's title keywords.
CrossReference(ctx) ==
  LET note == ctx.note
      keywords == Elements(TitleKeywords(note))
      topics == Elements(ListOr(note, "tags")) \cup keywords
      other == IF Platform(note) = "bilibili" THEN "xiaohongshu"
               ELSE "bilibili"
  IN \E e \in Elements(ListOr(ctx, "buffer_entries")) :
       /\ EntryPlatform(e) = other
       /\ \/ Elements(e.tags) \cap topics # {}
          \/ \E w \in keywords : Includes(e.title, w)

\* The text asks for a comment draft in the "(draft: ...)" form.
HasDraft(text) == Includes(text, "(draft:")

\* The text carries the cross-reference clause.
HasMonologue(text) == Includes(text, "(char senses his interest in")

\* The text of the event message a generation has just inserted.
InsertedText == chat'[LandingIndex(settings.inject_position, Len(chat))].mes

GameLinked(telemetry, ctx) ==
  /\ telemetry # NULL
  /\ "last_session" \in DOMAIN telemetry
  /\ LET ls == telemetry.last_session
         tags == CurrentTags(ctx.note)
     IN /\ ls.type = "gaming"
        /\ ls.minutes_ago < 60
        /\ \/ \E w \in Elements(TitleKeywords(ctx.note)) :
                Includes(ls.name, w)
           \/ \E t \in Elements(tags) :
                Includes(ls.name, t) \/ Includes(t, ls.name)

\* C39: when telemetry reports a game that ended less than 60 minutes ago
\* and whose name overlaps the event's title keywords or tags, the text the
\* interceptor builds asks for a draft in the "(draft:" form, and its
\* sensory clause names the game when it ended less than 30 minutes ago.
C39_GameLinkedDraft ==
  [][ \A hour \in TextHours :
        ( /\ lastGen' = "normal"
          /\ Len(chat') = Len(chat) + 1
          /\ uiLatestContext # NULL
          /\ CompanionLinkInterceptor("normal", hour)
          /\ GameLinked(uiLatestTelemetry, uiLatestContext) )
        => /\ HasDraft(InsertedText)
           /\ uiLatestTelemetry.last_session.minutes_ago < 30
              => Includes(SensoryObservation(uiLatestTelemetry,
                                             Platform(uiLatestContext.note)),
                          uiLatestTelemetry.last_session.name) ]_vars

\* C29: a response with should_trigger = true carries the event that was the
\* latest when POST /trigger was called: the retrieval that hands out the
\* flag of a trigger set over an event returns that very event, not one
\* ingested after the trigger set.
C29_TriggerForLatestAtSet ==
  [][(pendingTrigger /\ ~pendingTrigger' /\ trigFor # NULL)
       => (lastResp'.should_trigger /\ lastResp'.context.id = trigFor)]_vars
====
